---- MODULE Spec2Model ----
(***************************************************************************)
(* Model of the Telegram todo bot: the two programs of the repository,     *)
(*   v1  src/bot_github_production.py     (class TodoBot)                  *)
(*   v3  src/bot_github_production_v3.py  (classes TodoManager,            *)
(*                                         CleanTodoBot)                   *)
(* A run of the model is a run of one of the two programs (variable        *)
(* `variant`).  A call of handle_message takes one step from each await    *)
(* to the next; the calls in flight are in `tasks`.                        *)
(*                                                                         *)
(* Texts are sequences of glyphs (one-character strings).  The Cyrillic    *)
(* move suffixes are written "g" (г), "v" (в), "z" (з); a menu label is a  *)
(* one-glyph text such as <<"[new]">>; "sup2" is the superscript two, a    *)
(* character for which str.isdigit() is True and int() raises ValueError.  *)
(* Python objects (TodoItem instances, todo dicts) live in `heap` and the  *)
(* lists hold references to them, so that list.copy() shares the objects   *)
(* as it does in Python.                                                   *)
(***************************************************************************)
EXTENDS Integers, Sequences, FiniteSets, TLC

VARIABLES
    variant,      \* "v1" or "v3": which program is running
    heap,         \* object reference -> TodoItem / todo dict
    user_todos,   \* v3 self.user_todos[chat]; v1 users_data[chat]['todos']
    next_ids,     \* v3 self.next_ids[chat];   v1 users_data[chat]['next_id']
    backups,      \* v3 self.backups[chat];    v1 users_data[chat]['backup_todos']
    storage_file, \* the content of todos_data.json
    ev,           \* the inbound event processed last: chat, raw text
    pre,          \* the chat's lists and next id as they were before `ev`
    out,          \* the outbound messages sent while processing `ev`
    aborted,      \* TRUE iff the handler of `ev` ended in an exception
    allocated,    \* per chat, the ids of the todos the program started with
                  \* followed by the ids given out by add, oldest first
    nEvents,      \* number of updates accepted and of restarts so far
    tasks         \* the calls of handle_message that have not returned yet:
                  \* the update of each and the await it is suspended at

vars == <<variant, heap, user_todos, next_ids, backups, storage_file, ev, pre,
          out, aborted, allocated, nEvents, tasks>>

----------------------------------------------------------------------------
(* Bounds of the model *)

MaxEvents == 2

----------------------------------------------------------------------------
(* Sections.  v1 stores the index; v3 stores the name, in the order of its *)
(* section_map {0: 'закупівля', 1: 'гараж', 2: 'волинка', 3: 'виконано'}.  *)

Zakupivlya == 0
Garazh == 1
Volynka == 2
Vykonano == 3

\* Python's None, for an object reference
None == 0

\* The chats of the embedded data of v3, and a chat that is in no data
BigChat == "-1002138020601"
SmallChat == "-1002581954453"
NewChat == "777"

\* the chats that send messages
Chats == {BigChat, NewChat}

----------------------------------------------------------------------------
(* Python str operations on glyph sequences *)

Whitespace == {" ", "\n"}

AsciiDigits == {"0", "1", "2", "3", "4", "5", "6", "7", "8", "9"}

\* characters c with c.isdigit(): the decimal digits and the superscripts
DigitChars == AsciiDigits \cup {"sup2"}

RECURSIVE lstrip(_)
lstrip(s) ==
    IF s # <<>> /\ Head(s) \in Whitespace THEN lstrip(Tail(s)) ELSE s

RECURSIVE rstrip(_)
rstrip(s) ==
    IF s # <<>> /\ s[Len(s)] \in Whitespace
        THEN rstrip(SubSeq(s, 1, Len(s) - 1))
        ELSE s

strip(s) == rstrip(lstrip(s))

startswith(s, p) == Len(s) >= Len(p) /\ SubSeq(s, 1, Len(p)) = p

\* s[k:] with k >= 0
Slice_from(s, k) == SubSeq(s, k + 1, Len(s))

\* s[:-1]
Slice_but_last(s) == SubSeq(s, 1, Len(s) - 1)

isdigit(s) == s # <<>> /\ \A i \in 1..Len(s) : s[i] \in DigitChars

\* int(s) raises ValueError for a string that is not a decimal literal
int_raises(s) == ~(s # <<>> /\ \A i \in 1..Len(s) : s[i] \in AsciiDigits)

DigitValue(c) ==
    CASE c = "0" -> 0 [] c = "1" -> 1 [] c = "2" -> 2 [] c = "3" -> 3
      [] c = "4" -> 4 [] c = "5" -> 5 [] c = "6" -> 6 [] c = "7" -> 7
      [] c = "8" -> 8 [] c = "9" -> 9

RECURSIVE int(_)
int(s) ==
    IF s = <<>> THEN 0
    ELSE 10 * int(Slice_but_last(s)) + DigitValue(s[Len(s)])

\* s.split(sep) for a one-character separator
RECURSIVE split(_, _)
split(s, sep) ==
    IF \A i \in 1..Len(s) : s[i] # sep THEN <<s>>
    ELSE LET k == CHOOSE i \in 1..Len(s) :
                      s[i] = sep /\ \A j \in 1..(i - 1) : s[j] # sep
         IN <<SubSeq(s, 1, k - 1)>> \o split(Slice_from(s, k), sep)

contains(s, c) == \E i \in 1..Len(s) : s[i] = c

----------------------------------------------------------------------------
(* Python dict and list helpers *)

\* d[k] = v
Put(d, k, v) == [x \in (DOMAIN d) \cup {k} |-> IF x = k THEN v ELSE d[x]]

EmptyDict == [x \in {} |-> None]

\* the objects a list of references points to
Deref(h, refs) == [i \in 1..Len(refs) |-> h[refs[i]]]

\* a fresh object reference
NewRef(h) == CHOOSE r \in 1..(Cardinality(DOMAIN h) + 1) :
                 r \notin DOMAIN h /\ \A q \in 1..(r - 1) : q \in DOMAIN h

Range(s) == {s[i] : i \in 1..Len(s)}

----------------------------------------------------------------------------
(* v3: class TodoItem and class TodoManager.  A manager value m is the      *)
(* record of the attributes heap, user_todos, next_ids, backups and         *)
(* storage_file, with io the outcome of the writes of the current event:    *)
(* "ok" (every open/json.dump succeeds) or "fail" (open raises, the file    *)
(* keeps its content).  Every operation yields [m |-> manager, ret |-> r].  *)

\* TodoItem.__init__; the attribute item_id is the field id
TodoItem(text, item_id, section) ==
    [text |-> text, id |-> item_id, crossed_out |-> FALSE, section |-> section]

\* what _save_data writes: {'todos': {str(user): [...]}, 'next_ids': ...}
v3_snapshot(m) ==
    [fmt |-> "v3",
     todos |-> [u \in DOMAIN m.user_todos |-> Deref(m.heap, m.user_todos[u])],
     next_ids |-> m.next_ids]

_save_data(m) ==
    IF m.io = "ok" THEN [m EXCEPT !.storage_file = v3_snapshot(m)] ELSE m

\* mutant of add_todo: when the write fails the new task is taken back
add_todo_undone_on_failure(m, user_id, text) ==
    LET m1 == IF user_id \notin DOMAIN m.user_todos
                  THEN [m EXCEPT !.user_todos = Put(@, user_id, <<>>),
                                 !.next_ids = Put(@, user_id, 1)]
                  ELSE m
        section == IF startswith(text, <<"!", "!">>) THEN Volynka
                   ELSE IF startswith(text, <<"!">>) THEN Garazh
                   ELSE Zakupivlya
        text1 == IF startswith(text, <<"!", "!">>) THEN strip(Slice_from(text, 2))
                 ELSE IF startswith(text, <<"!">>) THEN strip(Slice_from(text, 1))
                 ELSE text
        ref == NewRef(m1.heap)
        todo == TodoItem(text1, m1.next_ids[user_id], section)
        m2 == [m1 EXCEPT !.heap = Put(@, ref, todo),
                         !.user_todos[user_id] = Append(@, ref),
                         !.next_ids[user_id] = @ + 1]
    IN IF m.io = "ok" THEN [m |-> _save_data(m2), ret |-> ref]
       ELSE [m |-> m1, ret |-> None]

\* mutant of add_todo: the new task is numbered by the length of the list
add_todo_numbering_by_length(m, user_id, text) ==
    LET m1 == IF user_id \notin DOMAIN m.user_todos
                  THEN [m EXCEPT !.user_todos = Put(@, user_id, <<>>),
                                 !.next_ids = Put(@, user_id, 1)]
                  ELSE m
        section == IF startswith(text, <<"!", "!">>) THEN Volynka
                   ELSE IF startswith(text, <<"!">>) THEN Garazh
                   ELSE Zakupivlya
        text1 == IF startswith(text, <<"!", "!">>) THEN strip(Slice_from(text, 2))
                 ELSE IF startswith(text, <<"!">>) THEN strip(Slice_from(text, 1))
                 ELSE text
        ref == NewRef(m1.heap)
        todo == TodoItem(text1, Len(m1.user_todos[user_id]) + 1, section)
        m2 == [m1 EXCEPT !.heap = Put(@, ref, todo),
                         !.user_todos[user_id] = Append(@, ref),
                         !.next_ids[user_id] = @ + 1]
    IN [m |-> _save_data(m2), ret |-> ref]

add_todo(m, user_id, text) ==
    LET m1 == IF user_id \notin DOMAIN m.user_todos
                  THEN [m EXCEPT !.user_todos = Put(@, user_id, <<>>),
                                 !.next_ids = Put(@, user_id, 1)]
                  ELSE m
        section == IF startswith(text, <<"!", "!">>) THEN Volynka
                   ELSE IF startswith(text, <<"!">>) THEN Garazh
                   ELSE Zakupivlya
        text1 == IF startswith(text, <<"!", "!">>) THEN strip(Slice_from(text, 2))
                 ELSE IF startswith(text, <<"!">>) THEN strip(Slice_from(text, 1))
                 ELSE text
        ref == NewRef(m1.heap)
        todo == TodoItem(text1, m1.next_ids[user_id], section)
        m2 == [m1 EXCEPT !.heap = Put(@, ref, todo),
                         !.user_todos[user_id] = Append(@, ref),
                         !.next_ids[user_id] = @ + 1]
    IN [m |-> _save_data(m2), ret |-> ref]

\* mutant of v3_ordered: the loop over the active sections leaves out the
\* last one
v3_ordered_without_volynka(m, user_id) ==
    LET todos == m.user_todos[user_id]
        active(section) ==
            SelectSeq(todos, LAMBDA t : m.heap[t].section = section
                                        /\ ~m.heap[t].crossed_out)
    IN active(Zakupivlya) \o active(Garazh)
       \o SelectSeq(todos, LAMBDA t : m.heap[t].crossed_out
                                      \/ m.heap[t].section = Vykonano)

\* the list `ordered` that get_todo_by_display_number builds
v3_ordered(m, user_id) ==
    LET todos == m.user_todos[user_id]
        active(section) ==
            SelectSeq(todos, LAMBDA t : m.heap[t].section = section
                                        /\ ~m.heap[t].crossed_out)
    IN active(Zakupivlya) \o active(Garazh) \o active(Volynka)
       \o SelectSeq(todos, LAMBDA t : m.heap[t].crossed_out
                                      \/ m.heap[t].section = Vykonano)

get_todo_by_display_number(m, user_id, display_num) ==
    IF user_id \notin DOMAIN m.user_todos THEN None
    ELSE LET ordered == v3_ordered(m, user_id)
         IN IF 1 <= display_num /\ display_num <= Len(ordered)
                THEN ordered[display_num]
                ELSE None

\* list.remove(x): drops the first element equal to x; TodoItem defines no
\* __eq__, so equal means the same object
list_remove(l, x) ==
    LET k == CHOOSE i \in 1..Len(l) : l[i] = x /\ \A j \in 1..(i - 1) : l[j] # x
    IN SubSeq(l, 1, k - 1) \o SubSeq(l, k + 1, Len(l))

\* mutant of remove_todo: the task removed is the one at the place
\* display_num of the list, not the one the lookup returns
remove_todo_at_list_place(m, user_id, display_num) ==
    LET todo == get_todo_by_display_number(m, user_id, display_num)
    IN IF todo # None /\ user_id \in DOMAIN m.user_todos
           THEN [m |-> _save_data([m EXCEPT !.user_todos[user_id] =
                                                list_remove(@, @[display_num])]),
                 ret |-> TRUE]
           ELSE [m |-> m, ret |-> FALSE]

remove_todo(m, user_id, display_num) ==
    LET todo == get_todo_by_display_number(m, user_id, display_num)
    IN IF todo # None /\ user_id \in DOMAIN m.user_todos
           THEN [m |-> _save_data([m EXCEPT !.user_todos[user_id] =
                                                list_remove(@, todo)]),
                 ret |-> TRUE]
           ELSE [m |-> m, ret |-> FALSE]

\* mutant of toggle_todo: the task is crossed out but stays in its section
toggle_todo_keeps_section(m, user_id, display_num) ==
    LET todo == get_todo_by_display_number(m, user_id, display_num)
    IN IF todo # None
           THEN [m |-> _save_data([m EXCEPT !.heap[todo].crossed_out =
                                               ~m.heap[todo].crossed_out]),
                 ret |-> TRUE]
           ELSE [m |-> m, ret |-> FALSE]

\* mutant of toggle_todo: a task that is no longer crossed out goes to the
\* second section
toggle_todo_back_to_garazh(m, user_id, display_num) ==
    LET todo == get_todo_by_display_number(m, user_id, display_num)
    IN IF todo # None
           THEN LET crossed == ~m.heap[todo].crossed_out
                IN [m |-> _save_data([m EXCEPT
                              !.heap[todo].crossed_out = crossed,
                              !.heap[todo].section =
                                  IF crossed THEN Vykonano ELSE Garazh]),
                    ret |-> TRUE]
           ELSE [m |-> m, ret |-> FALSE]

toggle_todo(m, user_id, display_num) ==
    LET todo == get_todo_by_display_number(m, user_id, display_num)
    IN IF todo # None
           THEN LET crossed == ~m.heap[todo].crossed_out
                IN [m |-> _save_data([m EXCEPT
                              !.heap[todo].crossed_out = crossed,
                              !.heap[todo].section =
                                  IF crossed THEN Vykonano ELSE Zakupivlya]),
                    ret |-> TRUE]
           ELSE [m |-> m, ret |-> FALSE]

move_todo_to_section(m, user_id, display_num, target_section) ==
    LET todo == get_todo_by_display_number(m, user_id, display_num)
    IN IF todo # None
           THEN [m |-> _save_data([m EXCEPT
                           !.heap[todo].section = target_section,
                           !.heap[todo].crossed_out = (target_section = Vykonano)]),
                 ret |-> TRUE]
           ELSE [m |-> m, ret |-> FALSE]

\* mutant of merge_todos: the second task's text is appended and the second
\* task stays in the list
merge_todos_keeping_second(m, user_id, first_num, second_num) ==
    LET first_todo == get_todo_by_display_number(m, user_id, first_num)
        second_todo == get_todo_by_display_number(m, user_id, second_num)
    IN IF first_todo # None /\ second_todo # None /\ first_todo # second_todo
           THEN [m |-> _save_data([m EXCEPT
                           !.heap[first_todo].text =
                               @ \o <<" ">> \o m.heap[second_todo].text]),
                 ret |-> TRUE]
           ELSE [m |-> m, ret |-> FALSE]

merge_todos(m, user_id, first_num, second_num) ==
    LET first_todo == get_todo_by_display_number(m, user_id, first_num)
        second_todo == get_todo_by_display_number(m, user_id, second_num)
    IN IF first_todo # None /\ second_todo # None /\ first_todo # second_todo
           THEN [m |-> _save_data([m EXCEPT
                           !.heap[first_todo].text =
                               @ \o <<" ">> \o m.heap[second_todo].text,
                           !.user_todos[user_id] = list_remove(@, second_todo)]),
                 ret |-> TRUE]
           ELSE [m |-> m, ret |-> FALSE]

\* mutant of clear_todos: the list is emptied and no backup is taken
clear_todos_without_backup(m, user_id) ==
    IF user_id \in DOMAIN m.user_todos
        THEN [m |-> _save_data([m EXCEPT !.user_todos[user_id] = <<>>]),
              ret |-> Len(m.user_todos[user_id])]
        ELSE [m |-> m, ret |-> 0]

\* mutant of clear_todos: the lists of all the chats are emptied
clear_todos_of_every_chat(m, user_id) ==
    IF user_id \in DOMAIN m.user_todos
        THEN LET count == Len(m.user_todos[user_id])
                 m1 == IF count > 0
                           THEN [m EXCEPT !.backups =
                                     Put(@, user_id, m.user_todos[user_id])]
                           ELSE m
             IN [m |-> _save_data([m1 EXCEPT !.user_todos =
                                       [u \in DOMAIN m.user_todos |-> <<>>]]),
                 ret |-> count]
        ELSE [m |-> m, ret |-> 0]

clear_todos(m, user_id) ==
    IF user_id \in DOMAIN m.user_todos
        THEN LET count == Len(m.user_todos[user_id])
                 m1 == IF count > 0
                           THEN [m EXCEPT !.backups =
                                     Put(@, user_id, m.user_todos[user_id])]
                           ELSE m
             IN [m |-> _save_data([m1 EXCEPT !.user_todos[user_id] = <<>>]),
                 ret |-> count]
        ELSE [m |-> m, ret |-> 0]

\* mutant of restore_backup: the backup is added to the list, whose tasks
\* stay
restore_backup_extending_list(m, user_id) ==
    IF user_id \in DOMAIN m.backups /\ m.backups[user_id] # <<>>
        THEN [m |-> _save_data([m EXCEPT
                        !.user_todos =
                            Put(@, user_id,
                                (IF user_id \in DOMAIN m.user_todos
                                     THEN m.user_todos[user_id] ELSE <<>>)
                                \o m.backups[user_id]),
                        !.backups[user_id] = <<>>]),
              ret |-> Len(m.backups[user_id])]
        ELSE [m |-> m, ret |-> 0]

restore_backup(m, user_id) ==
    IF user_id \in DOMAIN m.backups /\ m.backups[user_id] # <<>>
        THEN [m |-> _save_data([m EXCEPT
                        !.user_todos = Put(@, user_id, m.backups[user_id]),
                        !.backups[user_id] = <<>>]),
              ret |-> Len(m.backups[user_id])]
        ELSE [m |-> m, ret |-> 0]

\* mutant of continue_list: the completed tasks are copied to the backup and
\* stay in the list
continue_list_keeping_done(m, user_id) ==
    IF user_id \notin DOMAIN m.user_todos THEN [m |-> m, ret |-> 0]
    ELSE LET todos == m.user_todos[user_id]
             completed == SelectSeq(todos, LAMBDA t : m.heap[t].crossed_out
                                               \/ m.heap[t].section = Vykonano)
         IN IF completed # <<>>
                THEN [m |-> _save_data([m EXCEPT
                                !.backups = Put(@, user_id, completed)]),
                      ret |-> Len(completed)]
                ELSE [m |-> m, ret |-> 0]

\* mutant of continue_list: the backup is replaced also when no task is
\* completed
continue_list_always_backing_up(m, user_id) ==
    IF user_id \notin DOMAIN m.user_todos THEN [m |-> m, ret |-> 0]
    ELSE LET todos == m.user_todos[user_id]
             completed == SelectSeq(todos, LAMBDA t : m.heap[t].crossed_out
                                               \/ m.heap[t].section = Vykonano)
         IN [m |-> _save_data([m EXCEPT
                       !.backups = Put(@, user_id, completed),
                       !.user_todos[user_id] =
                           SelectSeq(todos, LAMBDA t :
                               ~m.heap[t].crossed_out
                               /\ m.heap[t].section # Vykonano)]),
             ret |-> Len(completed)]

continue_list(m, user_id) ==
    IF user_id \notin DOMAIN m.user_todos THEN [m |-> m, ret |-> 0]
    ELSE LET todos == m.user_todos[user_id]
             completed == SelectSeq(todos, LAMBDA t : m.heap[t].crossed_out
                                               \/ m.heap[t].section = Vykonano)
         IN IF completed # <<>>
                THEN [m |-> _save_data([m EXCEPT
                                !.backups = Put(@, user_id, completed),
                                !.user_todos[user_id] =
                                    SelectSeq(todos, LAMBDA t :
                                        ~m.heap[t].crossed_out
                                        /\ m.heap[t].section # Vykonano)]),
                      ret |-> Len(completed)]
                ELSE [m |-> m, ret |-> 0]

----------------------------------------------------------------------------
(* Outbound messages.  A rendered list is the record                        *)
(*   empty   - the fixed "list is empty" text was produced                  *)
(*   items   - the numbered lines, top to bottom: the number printed, the   *)
(*             task printed, its text, the header it is under, struck       *)
(*   summary - <<total, active, completed>> of the statistics line (v1)     *)

NoList == [empty |-> FALSE, items |-> <<>>, summary |-> <<>>]

EmptyList == [empty |-> TRUE, items |-> <<>>, summary |-> <<>>]

Message(chat_id, tag, count, list) ==
    [chat |-> chat_id, tag |-> tag, count |-> count, list |-> list]

\* the lines "<display_num>. <text>" of one section, numbered from first_num
render_lines(h, todos, first_num, header, struck) ==
    [i \in 1..Len(todos) |->
        [num |-> first_num + i - 1, todo |-> todos[i], text |-> h[todos[i]].text,
         header |-> header, struck |-> struck]]

\* mutant of get_formatted_list: display_num starts again at 1 under the
\* done header
get_formatted_list_renumbering_done(m, user_id) ==
    IF user_id \notin DOMAIN m.user_todos \/ m.user_todos[user_id] = <<>>
        THEN EmptyList
    ELSE LET todos == m.user_todos[user_id]
             section_todos(section_key) ==
                 SelectSeq(todos, LAMBDA t : m.heap[t].section = section_key
                                             /\ ~m.heap[t].crossed_out)
             l0 == render_lines(m.heap, section_todos(Zakupivlya), 1,
                                Zakupivlya, FALSE)
             l1 == render_lines(m.heap, section_todos(Garazh), 1 + Len(l0),
                                Garazh, FALSE)
             l2 == render_lines(m.heap, section_todos(Volynka),
                                1 + Len(l0) + Len(l1), Volynka, FALSE)
             completed_todos ==
                 SelectSeq(todos, LAMBDA t : m.heap[t].crossed_out
                                             \/ m.heap[t].section = Vykonano)
             l3 == render_lines(m.heap, completed_todos, 1, Vykonano, TRUE)
         IN [empty |-> FALSE, items |-> l0 \o l1 \o l2 \o l3, summary |-> <<>>]

get_formatted_list(m, user_id) ==
    IF user_id \notin DOMAIN m.user_todos \/ m.user_todos[user_id] = <<>>
        THEN EmptyList
    ELSE LET todos == m.user_todos[user_id]
             section_todos(section_key) ==
                 SelectSeq(todos, LAMBDA t : m.heap[t].section = section_key
                                             /\ ~m.heap[t].crossed_out)
             l0 == render_lines(m.heap, section_todos(Zakupivlya), 1,
                                Zakupivlya, FALSE)
             l1 == render_lines(m.heap, section_todos(Garazh), 1 + Len(l0),
                                Garazh, FALSE)
             l2 == render_lines(m.heap, section_todos(Volynka),
                                1 + Len(l0) + Len(l1), Volynka, FALSE)
             completed_todos ==
                 SelectSeq(todos, LAMBDA t : m.heap[t].crossed_out
                                             \/ m.heap[t].section = Vykonano)
             l3 == render_lines(m.heap, completed_todos,
                                1 + Len(l0) + Len(l1) + Len(l2), Vykonano, TRUE)
         IN [empty |-> FALSE, items |-> l0 \o l1 \o l2 \o l3, summary |-> <<>>]

----------------------------------------------------------------------------
(* v3: class CleanTodoBot.  A handler yields                                *)
(*   [m |-> manager, out |-> messages sent, aborted |-> raised an exception] *)

\* the menu labels handle_message compares the text with
v3_menu == <<"[menu]">>
v3_back == <<"[back]">>
v3_list == {<<"[list_v3]">>, <<"[word_list]">>}
v3_new == {<<"[new]">>, <<"[word_new]">>}
v3_restore == {<<"[restore]">>, <<"[word_restore]">>}
v3_continue == {<<"[continue]">>, <<"[word_continue]">>}

Handled(m, sent) == [m |-> m, out |-> sent, aborted |-> FALSE]

Raised(m) == [m |-> m, out |-> <<>>, aborted |-> TRUE]

\* a reply with the list as it is after the operation
v3_reply_list(m, chat_id) ==
    Handled(m, <<Message(chat_id, "list", 0, get_formatted_list(m, chat_id))>>)

\* for line in lines: self.manager.add_todo(chat_id, line)
RECURSIVE add_todo_lines(_, _, _)
add_todo_lines(m, chat_id, lines) ==
    IF lines = <<>> THEN m
    ELSE add_todo_lines(add_todo(m, chat_id, Head(lines)).m, chat_id, Tail(lines))

\* [line.strip() for line in text.split('\n') if line.strip()]
stripped_lines(text) ==
    LET parts == split(text, "\n")
        all == [i \in 1..Len(parts) |-> strip(parts[i])]
    IN SelectSeq(all, LAMBDA line : line # <<>>)

\* mutant of _handle_number_commands: the numbers of a merge are swapped
_handle_number_commands_merging_reversed(m, chat_id, text) ==
    IF startswith(text, <<"-">>) /\ isdigit(Slice_from(text, 1)) THEN
        IF int_raises(Slice_from(text, 1)) THEN Raised(m)
        ELSE LET r == remove_todo(m, chat_id, int(Slice_from(text, 1)))
             IN IF r.ret THEN v3_reply_list(r.m, chat_id) ELSE Handled(r.m, <<>>)
    ELSE IF isdigit(text) THEN
        IF int_raises(text) THEN Raised(m)
        ELSE LET r == toggle_todo(m, chat_id, int(text))
             IN IF r.ret THEN v3_reply_list(r.m, chat_id) ELSE Handled(r.m, <<>>)
    ELSE IF Len(text) > 1 /\ isdigit(Slice_but_last(text)) THEN
        IF int_raises(Slice_but_last(text)) THEN Raised(m)
        ELSE LET num == int(Slice_but_last(text))
                 suffix == text[Len(text)]
                 target_section == IF suffix = "g" THEN Garazh
                                   ELSE IF suffix = "v" THEN Volynka
                                   ELSE IF suffix = "z" THEN Zakupivlya
                                   ELSE None
                 \* a target that is None short-circuits the call
                 r == IF suffix \in {"g", "v", "z"}
                          THEN move_todo_to_section(m, chat_id, num, target_section)
                          ELSE [m |-> m, ret |-> FALSE]
             IN IF r.ret THEN v3_reply_list(r.m, chat_id) ELSE Handled(r.m, <<>>)
    ELSE IF contains(text, "+")
            /\ Len(split(text, "+")) = 2
            /\ isdigit(split(text, "+")[1]) /\ isdigit(split(text, "+")[2]) THEN
        LET parts == split(text, "+")
        IN IF int_raises(parts[1]) \/ int_raises(parts[2]) THEN Raised(m)
           ELSE LET r == merge_todos(m, chat_id, int(parts[2]), int(parts[1]))
                IN IF r.ret THEN v3_reply_list(r.m, chat_id)
                   ELSE Handled(r.m, <<>>)
    ELSE LET lines == stripped_lines(text)
             m1 == IF Len(lines) > 1 THEN add_todo_lines(m, chat_id, lines)
                   ELSE add_todo(m, chat_id, text).m
         IN v3_reply_list(m1, chat_id)

_handle_number_commands(m, chat_id, text) ==
    IF startswith(text, <<"-">>) /\ isdigit(Slice_from(text, 1)) THEN
        IF int_raises(Slice_from(text, 1)) THEN Raised(m)
        ELSE LET r == remove_todo(m, chat_id, int(Slice_from(text, 1)))
             IN IF r.ret THEN v3_reply_list(r.m, chat_id) ELSE Handled(r.m, <<>>)
    ELSE IF isdigit(text) THEN
        IF int_raises(text) THEN Raised(m)
        ELSE LET r == toggle_todo(m, chat_id, int(text))
             IN IF r.ret THEN v3_reply_list(r.m, chat_id) ELSE Handled(r.m, <<>>)
    ELSE IF Len(text) > 1 /\ isdigit(Slice_but_last(text)) THEN
        IF int_raises(Slice_but_last(text)) THEN Raised(m)
        ELSE LET num == int(Slice_but_last(text))
                 suffix == text[Len(text)]
                 target_section == IF suffix = "g" THEN Garazh
                                   ELSE IF suffix = "v" THEN Volynka
                                   ELSE IF suffix = "z" THEN Zakupivlya
                                   ELSE None
                 \* a target that is None short-circuits the call
                 r == IF suffix \in {"g", "v", "z"}
                          THEN move_todo_to_section(m, chat_id, num, target_section)
                          ELSE [m |-> m, ret |-> FALSE]
             IN IF r.ret THEN v3_reply_list(r.m, chat_id) ELSE Handled(r.m, <<>>)
    ELSE IF contains(text, "+")
            /\ Len(split(text, "+")) = 2
            /\ isdigit(split(text, "+")[1]) /\ isdigit(split(text, "+")[2]) THEN
        LET parts == split(text, "+")
        IN IF int_raises(parts[1]) \/ int_raises(parts[2]) THEN Raised(m)
           ELSE LET r == merge_todos(m, chat_id, int(parts[1]), int(parts[2]))
                IN IF r.ret THEN v3_reply_list(r.m, chat_id)
                   ELSE Handled(r.m, <<>>)
    ELSE LET lines == stripped_lines(text)
             m1 == IF Len(lines) > 1 THEN add_todo_lines(m, chat_id, lines)
                   ELSE add_todo(m, chat_id, text).m
         IN v3_reply_list(m1, chat_id)

v3_handle_message(m, chat_id, raw) ==
    LET text == strip(raw)
    IN IF text = v3_menu THEN
           Handled(m, <<Message(chat_id, "menu", 0, NoList)>>)
       ELSE IF text = v3_back THEN
           Handled(m, <<Message(chat_id, "back", 0, NoList)>>)
       ELSE IF text \in v3_list THEN
           v3_reply_list(m, chat_id)
       ELSE IF text \in v3_new THEN
           LET r == clear_todos(m, chat_id)
           IN Handled(r.m, <<Message(chat_id,
                                     IF r.ret > 0 THEN "cleared" ELSE "new_list",
                                     r.ret, NoList)>>)
       ELSE IF text \in v3_restore THEN
           LET r == restore_backup(m, chat_id)
           IN Handled(r.m, <<Message(chat_id,
                                     IF r.ret > 0 THEN "restored" ELSE "no_backup",
                                     r.ret, NoList)>>)
       ELSE IF text \in v3_continue THEN
           LET r == continue_list(m, chat_id)
           IN Handled(r.m, <<Message(chat_id,
                                     IF r.ret > 0 THEN "continued" ELSE "none_done",
                                     r.ret,
                                     IF r.ret > 0
                                         THEN get_formatted_list(r.m, chat_id)
                                         ELSE NoList)>>)
       ELSE _handle_number_commands(m, chat_id, text)

----------------------------------------------------------------------------
(* v1: class TodoBot.  users_data[user] is held in the same manager record: *)
(* 'todos' in user_todos, 'next_id' in next_ids, 'backup_todos' in backups  *)
(* (absent from the dict when the key is absent).  A todo is a dict, so ==  *)
(* and != compare the values of two todos, not their identity.              *)

\* what save_data writes: {'users': users_data}
v1_snapshot(m) ==
    [fmt |-> "v1",
     users |-> [u \in DOMAIN m.user_todos |->
                   [todos |-> Deref(m.heap, m.user_todos[u]),
                    next_id |-> m.next_ids[u],
                    has_backup |-> u \in DOMAIN m.backups,
                    backup_todos |-> IF u \in DOMAIN m.backups
                                         THEN Deref(m.heap, m.backups[u])
                                         ELSE <<>>]]]

save_data(m) ==
    IF m.io = "ok" THEN [m EXCEPT !.storage_file = v1_snapshot(m)] ELSE m

get_user_data(m, user_id) ==
    IF user_id \notin DOMAIN m.user_todos
        THEN [m EXCEPT !.user_todos = Put(@, user_id, <<>>),
                       !.next_ids = Put(@, user_id, 1)]
        ELSE m

\* todos_by_section[i] of format_todo_list and get_todo_by_display_number
v1_todos_by_section(m, user_id, i) ==
    SelectSeq(m.user_todos[user_id], LAMBDA t : m.heap[t].section = i)

v1_get_todo_by_display_number(m, user_id, display_number) ==
    LET walk == v1_todos_by_section(m, user_id, 0)
                \o v1_todos_by_section(m, user_id, 1)
                \o v1_todos_by_section(m, user_id, 2)
                \o v1_todos_by_section(m, user_id, 3)
    IN IF \E k \in 1..Len(walk) : k = display_number
           THEN walk[display_number]
           ELSE None

\* list.remove(x) on a list of dicts: drops the first element equal in value
v1_list_remove(h, l, x) ==
    LET k == CHOOSE i \in 1..Len(l) :
                 h[l[i]] = h[x] /\ \A j \in 1..(i - 1) : h[l[j]] # h[x]
    IN SubSeq(l, 1, k - 1) \o SubSeq(l, k + 1, Len(l))

remove_todo_by_number(m, user_id, display_number) ==
    LET todo == v1_get_todo_by_display_number(m, user_id, display_number)
    IN IF todo # None
           THEN [m |-> [m EXCEPT !.user_todos[user_id] =
                                     v1_list_remove(m.heap, @, todo)],
                 ret |-> TRUE]
           ELSE [m |-> m, ret |-> FALSE]

toggle_todo_by_number(m, user_id, display_number) ==
    LET todo == v1_get_todo_by_display_number(m, user_id, display_number)
    IN IF todo # None
           THEN LET crossed == ~m.heap[todo].crossed_out
                    section == m.heap[todo].section
                IN [m |-> [m EXCEPT
                              !.heap[todo].crossed_out = crossed,
                              !.heap[todo].section =
                                  IF crossed /\ section # Vykonano THEN Vykonano
                                  ELSE IF ~crossed /\ section = Vykonano
                                      THEN Zakupivlya
                                  ELSE section],
                    ret |-> TRUE]
           ELSE [m |-> m, ret |-> FALSE]

v1_merge_todos(m, user_id, num1, num2) ==
    LET todo1 == v1_get_todo_by_display_number(m, user_id, num1)
        todo2 == v1_get_todo_by_display_number(m, user_id, num2)
    IN IF todo1 # None /\ todo2 # None /\ m.heap[todo1] # m.heap[todo2]
           THEN LET h1 == [m.heap EXCEPT ![todo1].text =
                                             @ \o <<" ">> \o m.heap[todo2].text]
                IN [m |-> [m EXCEPT !.heap = h1,
                                    !.user_todos[user_id] =
                                        v1_list_remove(h1, @, todo2)],
                    ret |-> TRUE]
           ELSE [m |-> m, ret |-> FALSE]

v1_move_todo_to_section(m, user_id, display_number, section_idx) ==
    LET todo == v1_get_todo_by_display_number(m, user_id, display_number)
    IN IF todo # None
           THEN [m |-> [m EXCEPT
                           !.heap[todo].section = section_idx,
                           !.heap[todo].crossed_out = (section_idx = Vykonano)],
                 ret |-> TRUE]
           ELSE [m |-> m, ret |-> FALSE]

create_new_list(m, user_id) ==
    [m EXCEPT !.backups = Put(@, user_id, m.user_todos[user_id]),
              !.user_todos[user_id] = <<>>,
              !.next_ids[user_id] = 1]

\* max(todo['id'] for todo in todos)
max_id(h, todos) ==
    CHOOSE x \in {h[t].id : t \in Range(todos)} :
        \A t \in Range(todos) : h[t].id <= x

restore_last_list(m, user_id) ==
    IF user_id \in DOMAIN m.backups
        THEN LET todos == m.backups[user_id]
             IN [m EXCEPT !.user_todos[user_id] = todos,
                          !.next_ids[user_id] =
                              IF todos # <<>> THEN max_id(m.heap, todos) + 1 ELSE @]
        ELSE m

v1_continue_list(m, user_id) ==
    [m EXCEPT !.user_todos[user_id] =
                  SelectSeq(@, LAMBDA t : m.heap[t].section # Vykonano)]

\* the body of the loop of add_todo_from_text, for one line
v1_add_line(m, user_id, line0) ==
    LET section_idx == IF startswith(line0, <<"!", "!">>) THEN Volynka
                       ELSE IF startswith(line0, <<"!">>) THEN Garazh
                       ELSE Zakupivlya
        line == IF startswith(line0, <<"!", "!">>) THEN strip(Slice_from(line0, 2))
                ELSE IF startswith(line0, <<"!">>) THEN strip(Slice_from(line0, 1))
                ELSE line0
        ref == NewRef(m.heap)
        todo == [id |-> m.next_ids[user_id], text |-> line,
                 section |-> section_idx, crossed_out |-> FALSE]
    IN IF line # <<>>
           THEN [m EXCEPT !.heap = Put(@, ref, todo),
                          !.user_todos[user_id] = Append(@, ref),
                          !.next_ids[user_id] = @ + 1]
           ELSE m

RECURSIVE v1_add_lines(_, _, _)
v1_add_lines(m, user_id, lines) ==
    IF lines = <<>> THEN m
    ELSE v1_add_lines(v1_add_line(m, user_id, Head(lines)), user_id, Tail(lines))

add_todo_from_text(m, user_id, text) ==
    v1_add_lines(m, user_id, stripped_lines(text))

\* the lines of one section in format_todo_list; an active task is struck
\* when its crossed_out is set, a task under the done header is not
v1_render_lines(h, todos, first_num, header) ==
    [i \in 1..Len(todos) |->
        [num |-> first_num + i - 1, todo |-> todos[i], text |-> h[todos[i]].text,
         header |-> header,
         struck |-> header # Vykonano /\ h[todos[i]].crossed_out]]

format_todo_list(m, user_id) ==
    IF m.user_todos[user_id] = <<>> THEN EmptyList
    ELSE LET l0 == v1_render_lines(m.heap, v1_todos_by_section(m, user_id, 0),
                                   1, Zakupivlya)
             l1 == v1_render_lines(m.heap, v1_todos_by_section(m, user_id, 1),
                                   1 + Len(l0), Garazh)
             l2 == v1_render_lines(m.heap, v1_todos_by_section(m, user_id, 2),
                                   1 + Len(l0) + Len(l1), Volynka)
             l3 == v1_render_lines(m.heap, v1_todos_by_section(m, user_id, 3),
                                   1 + Len(l0) + Len(l1) + Len(l2), Vykonano)
             total == Len(m.user_todos[user_id])
             completed == Len(l3)
         IN [empty |-> FALSE, items |-> l0 \o l1 \o l2 \o l3,
             summary |-> <<total, total - completed, completed>>]

\* handle_todo_command: [m, ret, raised]
v1_result(r) == [m |-> r.m, ret |-> r.ret, raised |-> FALSE]

v1_raise(m) == [m |-> m, ret |-> FALSE, raised |-> TRUE]

handle_todo_command(m, user_id, text) ==
    IF startswith(text, <<"-">>) /\ isdigit(Slice_from(text, 1)) THEN
        IF int_raises(Slice_from(text, 1)) THEN v1_raise(m)
        ELSE v1_result(remove_todo_by_number(m, user_id, int(Slice_from(text, 1))))
    ELSE IF isdigit(text) THEN
        IF int_raises(text) THEN v1_raise(m)
        ELSE v1_result(toggle_todo_by_number(m, user_id, int(text)))
    ELSE IF contains(text, "+")
            /\ Len(split(text, "+")) = 2
            /\ isdigit(split(text, "+")[1]) /\ isdigit(split(text, "+")[2]) THEN
        LET parts == split(text, "+")
        IN IF int_raises(parts[1]) \/ int_raises(parts[2]) THEN v1_raise(m)
           ELSE v1_result(v1_merge_todos(m, user_id, int(parts[1]), int(parts[2])))
    ELSE IF text # <<>> /\ text[Len(text)] \in {"z", "g", "v"}
            /\ isdigit(Slice_but_last(text)) THEN
        IF int_raises(Slice_but_last(text)) THEN v1_raise(m)
        ELSE LET section_idx == IF text[Len(text)] = "z" THEN Zakupivlya
                                ELSE IF text[Len(text)] = "g" THEN Garazh
                                ELSE Volynka
             IN v1_result(v1_move_todo_to_section(m, user_id,
                              int(Slice_but_last(text)), section_idx))
    ELSE [m |-> m, ret |-> FALSE, raised |-> FALSE]

v1_menu == <<"[menu]">>
v1_back == <<"[back]">>
v1_list == <<"[list_v1]">>
v1_new == <<"[new]">>
v1_restore == <<"[restore]">>
v1_continue == <<"[continue]">>
v1_help == <<"[help]">>
v1_settings == <<"[settings]">>

\* a branch that awaits the send and returns: [m, out, aborted, saves]
v1_no_save(m, sent) == [m |-> m, out |-> sent, aborted |-> FALSE, saves |-> FALSE]

\* a branch that awaits the send and then calls self.save_data()
v1_then_save(m, sent) == [m |-> m, out |-> sent, aborted |-> FALSE, saves |-> TRUE]

v1_reply_list(m, user_id) ==
    v1_then_save(m, <<Message(user_id, "list", 0, format_todo_list(m, user_id))>>)

\* handle_message from the end of the delete to the await of the send: the
\* branch taken, the operation and the text handed to _send_message
v1_after_delete(m, user_id, text) ==
    IF text = v1_menu THEN
        v1_no_save(m, <<Message(user_id, "menu", 0, NoList)>>)
    ELSE IF text = v1_back THEN
        v1_no_save(m, <<Message(user_id, "back", 0, NoList)>>)
    ELSE IF text = v1_list THEN
        v1_no_save(m, <<Message(user_id, "list", 0, format_todo_list(m, user_id))>>)
    ELSE IF text = v1_new THEN
        v1_then_save(create_new_list(m, user_id),
                     <<Message(user_id, "new_list", 0, NoList)>>)
    ELSE IF text = v1_restore THEN
        v1_reply_list(restore_last_list(m, user_id), user_id)
    ELSE IF text = v1_continue THEN
        v1_reply_list(v1_continue_list(m, user_id), user_id)
    ELSE IF text = v1_help THEN
        v1_no_save(m, <<Message(user_id, "help", 0, NoList)>>)
    ELSE IF text = v1_settings THEN
        v1_no_save(m, <<Message(user_id, "settings", 0, NoList)>>)
    ELSE LET r == handle_todo_command(m, user_id, text)
         IN IF r.raised
                THEN [m |-> r.m, out |-> <<>>, aborted |-> TRUE, saves |-> FALSE]
            ELSE IF r.ret THEN v1_reply_list(r.m, user_id)
            ELSE v1_reply_list(add_todo_from_text(r.m, user_id, text), user_id)

\* the whole of handle_message, run without interruption
v1_handle_message(m0, user_id, raw) ==
    LET r == v1_after_delete(get_user_data(m0, user_id), user_id, strip(raw))
    IN [m |-> IF r.saves THEN save_data(r.m) ELSE r.m,
        out |-> r.out, aborted |-> r.aborted]

----------------------------------------------------------------------------
(* Initial states *)

\* todos_data.json does not exist
NoFile == [fmt |-> "none"]

\* embedded_data of _load_embedded_data; each text is written as one glyph
embedded_big ==
    <<
      [id |-> 1, text |-> <<"e1">>, section |-> Zakupivlya, crossed_out |-> FALSE],
      [id |-> 3, text |-> <<"e3">>, section |-> Zakupivlya, crossed_out |-> FALSE],
      [id |-> 8, text |-> <<"e8">>, section |-> Zakupivlya, crossed_out |-> FALSE],
      [id |-> 13, text |-> <<"e13">>, section |-> Zakupivlya, crossed_out |-> FALSE],
      [id |-> 25, text |-> <<"e25">>, section |-> Volynka, crossed_out |-> FALSE],
      [id |-> 33, text |-> <<"e33">>, section |-> Zakupivlya, crossed_out |-> FALSE],
      [id |-> 37, text |-> <<"e37">>, section |-> Zakupivlya, crossed_out |-> FALSE],
      [id |-> 38, text |-> <<"e38">>, section |-> Zakupivlya, crossed_out |-> FALSE],
      [id |-> 41, text |-> <<"e41">>, section |-> Zakupivlya, crossed_out |-> FALSE],
      [id |-> 49, text |-> <<"e49">>, section |-> Zakupivlya, crossed_out |-> FALSE],
      [id |-> 52, text |-> <<"e52">>, section |-> Zakupivlya, crossed_out |-> FALSE],
      [id |-> 54, text |-> <<"e54">>, section |-> Zakupivlya, crossed_out |-> FALSE],
      [id |-> 55, text |-> <<"e55">>, section |-> Zakupivlya, crossed_out |-> FALSE],
      [id |-> 56, text |-> <<"e56">>, section |-> Zakupivlya, crossed_out |-> FALSE],
      [id |-> 58, text |-> <<"e58">>, section |-> Zakupivlya, crossed_out |-> FALSE],
      [id |-> 62, text |-> <<"e62">>, section |-> Volynka, crossed_out |-> FALSE],
      [id |-> 69, text |-> <<"e69">>, section |-> Zakupivlya, crossed_out |-> FALSE],
      [id |-> 71, text |-> <<"e71">>, section |-> Volynka, crossed_out |-> FALSE]
    >>

embedded_small ==
    << [id |-> 39, text |-> <<"e39">>, section |-> Zakupivlya, crossed_out |-> FALSE] >>

embedded_ids(todos_data) == {todos_data[i].id : i \in 1..Len(todos_data)}

\* max_id + 1 of _load_embedded_data
embedded_next_id(todos_data) ==
    IF todos_data # <<>>
        THEN (CHOOSE x \in embedded_ids(todos_data) :
                  \A y \in embedded_ids(todos_data) : y <= x) + 1
        ELSE 1

\* _load_embedded_data of a new manager, todos_data.json holding `file`: the
\* embedded data in memory, and saved (io is the outcome of that write)
_load_embedded_data(file, io) ==
    LET nb == Len(embedded_big)
        m == [heap |-> [r \in 1..(nb + Len(embedded_small)) |->
                           IF r <= nb THEN embedded_big[r]
                           ELSE embedded_small[r - nb]],
              user_todos |-> Put(Put(EmptyDict, BigChat, [i \in 1..nb |-> i]),
                                 SmallChat,
                                 [i \in 1..Len(embedded_small) |-> nb + i]),
              next_ids |-> Put(Put(EmptyDict, BigChat, embedded_next_id(embedded_big)),
                               SmallChat, embedded_next_id(embedded_small)),
              backups |-> EmptyDict,
              storage_file |-> file,
              io |-> io]
    IN _save_data(m)

\* allocates one object per value: [heap, refs]
RECURSIVE alloc_all(_, _)
alloc_all(h, values) ==
    IF values = <<>> THEN [heap |-> h, refs |-> <<>>]
    ELSE LET ref == NewRef(h)
             rest == alloc_all(Put(h, ref, Head(values)), Tail(values))
         IN [heap |-> rest.heap, refs |-> <<ref>> \o rest.refs]

\* the loop over users_data.items() of _load_data: a new TodoItem per entry
RECURSIVE v3_load_users(_, _, _)
v3_load_users(m, users_data, left) ==
    IF left = {} THEN m
    ELSE LET u == CHOOSE x \in left : TRUE
             t == alloc_all(m.heap, users_data[u])
             m1 == [m EXCEPT !.heap = t.heap,
                             !.user_todos = Put(@, u, t.refs)]
         IN v3_load_users(m1, users_data, left \ {u})

\* TodoManager.__init__ with todos_data.json holding `file`: the embedded
\* data are loaded and saved first, then the file, if there is one with
\* users in it, replaces user_todos and next_ids
_load_data(file, io) ==
    LET m == _load_embedded_data(file, io)
        data == m.storage_file
    IN IF data.fmt = "v3" /\ DOMAIN data.todos # {}
           THEN [v3_load_users([m EXCEPT !.heap = EmptyDict,
                                         !.user_todos = EmptyDict],
                               data.todos, DOMAIN data.todos)
                    EXCEPT !.next_ids = data.next_ids]
           ELSE m

\* users_data = data.get('users', {}): every dict of the file a new object
RECURSIVE v1_load_users(_, _, _)
v1_load_users(m, users, left) ==
    IF left = {} THEN m
    ELSE LET u == CHOOSE x \in left : TRUE
             t == alloc_all(m.heap, users[u].todos)
             b == alloc_all(t.heap, users[u].backup_todos)
             m1 == [m EXCEPT !.heap = b.heap,
                             !.user_todos = Put(@, u, t.refs),
                             !.next_ids = Put(@, u, users[u].next_id),
                             !.backups = IF users[u].has_backup
                                             THEN Put(@, u, b.refs) ELSE @]
         IN v1_load_users(m1, users, left \ {u})

\* TodoBot.__init__: load_data with todos_data.json holding `file`
load_data(file) ==
    LET m == [heap |-> EmptyDict, user_todos |-> EmptyDict, next_ids |-> EmptyDict,
              backups |-> EmptyDict, storage_file |-> file, io |-> "ok"]
    IN IF file.fmt = "v1" THEN v1_load_users(m, file.users, DOMAIN file.users)
       ELSE m

\* the file v1 leaves after the messages "a" and "!b" of BigChat
v1_saved_file ==
    [fmt |-> "v1",
     users |-> Put(EmptyDict, BigChat,
                   [todos |-> << [id |-> 1, text |-> <<"a">>,
                                  section |-> Zakupivlya, crossed_out |-> FALSE],
                                 [id |-> 2, text |-> <<"b">>,
                                  section |-> Garazh, crossed_out |-> FALSE] >>,
                    next_id |-> 3,
                    has_backup |-> FALSE,
                    backup_todos |-> <<>>])]

\* the files v1 may find when it starts
V1Files == {NoFile, v1_saved_file}

NoEvent == [chat |-> "", text |-> <<>>]

\* a chat's lists (by value) and next id; a chat without a list is shown as
\* the empty list it gets on first use, whose next id is 1
UserView(h, todos, ids, bk, chat) ==
    [known |-> chat \in DOMAIN todos,
     todos |-> IF chat \in DOMAIN todos THEN Deref(h, todos[chat]) ELSE <<>>,
     next_id |-> IF chat \in DOMAIN ids THEN ids[chat] ELSE 1,
     has_backup |-> chat \in DOMAIN bk,
     backup |-> IF chat \in DOMAIN bk THEN Deref(h, bk[chat]) ELSE <<>>]

NoView == [known |-> FALSE, todos |-> <<>>, next_id |-> 1,
           has_backup |-> FALSE, backup |-> <<>>]

InitWith(v, m) ==
    /\ variant = v
    /\ heap = m.heap
    /\ user_todos = m.user_todos
    /\ next_ids = m.next_ids
    /\ backups = m.backups
    /\ storage_file = m.storage_file
    /\ ev = NoEvent
    /\ pre = NoView
    /\ out = <<>>
    /\ aborted = FALSE
    /\ allocated = [c \in Chats |->
                        IF c \in DOMAIN m.user_todos
                            THEN [i \in 1..Len(m.user_todos[c]) |->
                                     m.heap[m.user_todos[c][i]].id]
                            ELSE <<>>]
    /\ nEvents = 0
    /\ tasks = {}

\* v3 starts where there is no todos_data.json yet
InitV3 == InitWith("v3", _load_data(NoFile, "ok"))

InitV1 == \E file \in V1Files : InitWith("v1", load_data(file))

Init == InitV1 \/ InitV3

----------------------------------------------------------------------------
(* Inbound events *)

\* the raw texts the model sends, but for the label of the list button
CommonTexts ==
    { <<"a">>, <<"!", "!", "b">>, <<"!", "a", "\n", "1">>, <<"!">>,
      <<"1">>, <<"9", "9">>,
      <<"-", "1">>, <<"-", "9", "9">>,
      <<"1", "+", "2">>, <<"1", "+", "1">>, <<"1", "+", "9", "9">>,
      <<"1", "g">>, <<"1", "v">>, <<"2", "z">>, <<"9", "9", "g">>,
      <<"1", "x">>, <<"1", "+">>,
      <<"sup2">>,
      <<"[menu]">>, <<"[back]">>, <<"[new]">>,
      <<"[restore]">>, <<"[continue]">>, <<"[help]">>, <<"[settings]">> }

\* the raw texts a chat of the running program sends: the list button carries
\* the label of that program's keyboard
Texts ==
    CommonTexts \cup {IF variant = "v3" THEN <<"[list_v3]">> ELSE <<"[list_v1]">>}

\* outcomes of the writes to todos_data.json during one event
IoOutcomes == {"ok", "fail"}

Manager(io) ==
    [heap |-> heap, user_todos |-> user_todos, next_ids |-> next_ids,
     backups |-> backups, storage_file |-> storage_file, io |-> io]

\* the references still held by some list
Live(m) ==
    UNION {Range(m.user_todos[u]) : u \in DOMAIN m.user_todos}
    \cup UNION {Range(m.backups[u]) : u \in DOMAIN m.backups}

\* the ids of the todos the handler created for the chat, in list order
NewIds(m, chat) ==
    IF chat \notin DOMAIN m.user_todos THEN <<>>
    ELSE LET fresh == SelectSeq(m.user_todos[chat], LAMBDA t : t \notin DOMAIN heap)
         IN [i \in 1..Len(fresh) |-> m.heap[fresh[i]].id]

\* an application built with concurrent_updates(True)
concurrent_updates_on == TRUE

\* the application is built without concurrent_updates: an update is taken
\* from the queue when the handler of the one before has returned
concurrent_updates == FALSE

\* the call of handle_message for an update, suspended at the delete of the
\* user's message; seen is the chat as the call found it
Called(update_id, chat, raw) ==
    [update_id |-> update_id, chat |-> chat, text |-> raw, pc |-> "delete",
     seen |-> UserView(heap, user_todos, next_ids, backups, chat)]

\* the application takes the next update and calls handle_message, which
\* runs up to its first await; m is the manager the call leaves
Accept(m, chat, raw) ==
    /\ tasks' = tasks \cup {Called(nEvents + 1, chat, raw)}
    /\ nEvents' = nEvents + 1
    /\ heap' = m.heap
    /\ user_todos' = m.user_todos
    /\ next_ids' = m.next_ids
    /\ backups' = m.backups
    /\ UNCHANGED <<variant, storage_file, ev, pre, out, aborted, allocated>>

\* the state after the call t went from the delete to the send (or to its
\* end, when it sends nothing), leaving r; then is where it is suspended
Commit(r, t, then) ==
    /\ heap' = [x \in Live(r.m) |-> r.m.heap[x]]
    /\ user_todos' = r.m.user_todos
    /\ next_ids' = r.m.next_ids
    /\ backups' = r.m.backups
    /\ storage_file' = r.m.storage_file
    /\ ev' = [chat |-> t.chat, text |-> t.text]
    /\ pre' = [UserView(heap, user_todos, next_ids, backups, t.chat)
                   EXCEPT !.known = t.seen.known]
    /\ out' = r.out
    /\ aborted' = r.aborted
    /\ allocated' = [allocated EXCEPT ![t.chat] = @ \o NewIds(r.m, t.chat)]
    /\ tasks' = IF r.out = <<>> THEN tasks \ {t}
                ELSE (tasks \ {t}) \cup {[t EXCEPT !.pc = then]}
    /\ UNCHANGED <<variant, nEvents>>

\* the call t returns, leaving the file as `file`
Return(t, file) ==
    /\ tasks' = tasks \ {t}
    /\ storage_file' = file
    /\ UNCHANGED <<variant, heap, user_todos, next_ids, backups, ev, pre, out,
                   aborted, allocated, nEvents>>

\* v3: CleanTodoBot.handle_message is called for an update and awaits the
\* delete of the user's message
CleanTodoBot_handle_message_called ==
    /\ variant = "v3"
    /\ nEvents < MaxEvents
    /\ concurrent_updates \/ tasks = {}
    /\ \E chat \in Chats, raw \in Texts : Accept(Manager("ok"), chat, raw)

\* v3: CleanTodoBot.handle_message from the delete to the await of the send:
\* the branch, the operation with its write, the reply
CleanTodoBot_handle_message ==
    /\ variant = "v3"
    /\ \E t \in tasks, io \in IoOutcomes :
           /\ t.pc = "delete"
           /\ \E r \in {v3_handle_message(Manager(io), t.chat, t.text)} :
                  Commit(r, t, "send")

\* v3: the send is over and CleanTodoBot.handle_message returns
CleanTodoBot_handle_message_returns ==
    /\ variant = "v3"
    /\ \E t \in tasks : t.pc = "send" /\ Return(t, storage_file)

\* v1: TodoBot.handle_message is called for an update, gets the user's data
\* and awaits the delete of the user's message
TodoBot_handle_message_called ==
    /\ variant = "v1"
    /\ nEvents < MaxEvents
    /\ concurrent_updates \/ tasks = {}
    /\ \E chat \in Chats, raw \in Texts :
           Accept(get_user_data(Manager("ok"), chat), chat, raw)

\* v1: TodoBot.handle_message from the delete to the await of the send
TodoBot_handle_message ==
    /\ variant = "v1"
    /\ \E t \in tasks :
           /\ t.pc = "delete"
           /\ \E r \in {v1_after_delete(Manager("ok"), t.chat, strip(t.text))} :
                  Commit(r, t, IF r.saves THEN "send_then_save" ELSE "send")

\* v1: the send is over; TodoBot.handle_message saves, in the branches that
\* do, and returns
TodoBot_handle_message_returns ==
    /\ variant = "v1"
    /\ \E t \in tasks, io \in IoOutcomes :
           \/ t.pc = "send" /\ Return(t, storage_file)
           \/ t.pc = "send_then_save"
                  /\ Return(t, save_data(Manager(io)).storage_file)

\* the state of a process that has just started with the manager m
Started(m) ==
    /\ heap' = m.heap
    /\ user_todos' = m.user_todos
    /\ next_ids' = m.next_ids
    /\ backups' = m.backups
    /\ storage_file' = m.storage_file
    /\ ev' = NoEvent
    /\ pre' = NoView
    /\ out' = <<>>
    /\ aborted' = FALSE
    /\ nEvents' = nEvents + 1
    /\ tasks' = {}
    /\ UNCHANGED <<variant, allocated>>

\* v3: the process ends and starts again: TodoManager.__init__
TodoManager_init ==
    /\ variant = "v3"
    /\ nEvents < MaxEvents
    /\ \E io \in IoOutcomes : Started(_load_data(storage_file, io))

\* v1: the process ends, killed or by signal_handler (which saves first),
\* and starts again: TodoBot.__init__
TodoBot_init ==
    /\ variant = "v1"
    /\ nEvents < MaxEvents
    /\ \E io \in IoOutcomes, by_signal \in BOOLEAN :
           LET m == IF by_signal THEN save_data(Manager(io)) ELSE Manager(io)
           IN Started(load_data(m.storage_file))

NextV3 ==
    \/ CleanTodoBot_handle_message_called
    \/ CleanTodoBot_handle_message
    \/ CleanTodoBot_handle_message_returns
    \/ TodoManager_init

NextV1 ==
    \/ TodoBot_handle_message_called
    \/ TodoBot_handle_message
    \/ TodoBot_handle_message_returns
    \/ TodoBot_init

Next ==
    \/ TodoBot_handle_message_called
    \/ TodoBot_handle_message
    \/ TodoBot_handle_message_returns
    \/ TodoBot_init
    \/ CleanTodoBot_handle_message_called
    \/ CleanTodoBot_handle_message
    \/ CleanTodoBot_handle_message_returns
    \/ TodoManager_init

Spec == Init /\ [][Next]_vars

SpecV3 == InitV3 /\ [][NextV3]_vars

SpecV1 == InitV1 /\ [][NextV1]_vars

----------------------------------------------------------------------------
(* Vocabulary of the properties *)

\* the manager of the current state
Now == Manager("ok")

View(chat) == UserView(heap, user_todos, next_ids, backups, chat)

TodosOf(chat) == IF chat \in DOMAIN user_todos THEN user_todos[chat] ELSE <<>>

BackupOf(chat) == IF chat \in DOMAIN backups THEN backups[chat] ELSE <<>>

KnownChats == DOMAIN user_todos

\* no call of handle_message is under way: the next update can be taken
Quiet == tasks = {}

\* lookupByDisplayNumber of the running program
Lookup(m, chat, n) ==
    IF variant = "v3" THEN get_todo_by_display_number(m, chat, n)
    ELSE IF chat \in DOMAIN m.user_todos
        THEN v1_get_todo_by_display_number(m, chat, n)
    ELSE None

\* the message handler of the running program
Run(m, chat, raw) ==
    IF variant = "v3" THEN v3_handle_message(m, chat, raw)
    ELSE v1_handle_message(m, chat, raw)

ValuesOf(m, chat) ==
    IF chat \in DOMAIN m.user_todos THEN Deref(m.heap, m.user_todos[chat]) ELSE <<>>

BackupValuesOf(m, chat) ==
    IF chat \in DOMAIN m.backups THEN Deref(m.heap, m.backups[chat]) ELSE <<>>

\* the classification rules of the specification, on the trimmed text
Digits(t) == t # <<>> /\ \A i \in 1..Len(t) : t[i] \in AsciiDigits

MenuLabels ==
    {<<"[menu]">>, <<"[back]">>, <<"[list_v3]">>, <<"[list_v1]">>, <<"[new]">>,
     <<"[restore]">>, <<"[continue]">>, <<"[help]">>, <<"[settings]">>}

IsDeleteText(t) == startswith(t, <<"-">>) /\ Digits(Slice_from(t, 1))

IsToggleText(t) == Digits(t)

IsMergeText(t) ==
    /\ Cardinality({i \in 1..Len(t) : t[i] = "+"}) = 1
    /\ Digits(split(t, "+")[1])
    /\ Digits(split(t, "+")[2])

IsMoveText(t) ==
    Len(t) > 1 /\ t[Len(t)] \in {"z", "g", "v"} /\ Digits(Slice_but_last(t))

IsNumericText(t) ==
    IsDeleteText(t) \/ IsToggleText(t) \/ IsMergeText(t) \/ IsMoveText(t)

\* no task has display number n in the list the event found
NoTaskAt(n) == n < 1 \/ n > Len(pre.todos)

\* the last event is a numeric command that resolves to no task, or a merge
\* of a task with itself
EventResolvesNothing ==
    /\ ev # NoEvent
    /\ LET t == strip(ev.text)
       IN \/ IsDeleteText(t) /\ NoTaskAt(int(Slice_from(t, 1)))
          \/ IsToggleText(t) /\ NoTaskAt(int(t))
          \/ IsMoveText(t) /\ NoTaskAt(int(Slice_but_last(t)))
          \/ /\ IsMergeText(t)
             /\ LET n1 == int(split(t, "+")[1])
                    n2 == int(split(t, "+")[2])
                IN NoTaskAt(n1) \/ NoTaskAt(n2) \/ n1 = n2

\* the chat's tasks, next id and backup are as they were before the event
EventChangedNothing ==
    LET v == View(ev.chat)
    IN /\ v.todos = pre.todos
       /\ v.next_id = pre.next_id
       /\ v.has_backup = pre.has_backup
       /\ v.backup = pre.backup

StrictlyIncreasing(ids) ==
    \A i \in 1..(Len(ids) - 1) : ids[i] < ids[i + 1]

----------------------------------------------------------------------------
(* C1: a chat's next id is strictly greater than the id of every task in   *)
(* its list and of every task held in its backup.                          *)
C1_NextIdAboveAllIds ==
    \A c \in KnownChats :
        \A t \in Range(TodosOf(c)) \cup Range(BackupOf(c)) :
            next_ids[c] > heap[t].id

(* C2: ids are never reused: the ids a chat's tasks were given, in the     *)
(* order they were given, are strictly increasing.                         *)
C2_IdsNeverReused ==
    \A c \in Chats : StrictlyIncreasing(allocated[c])

(* C3: every task, in a list or in a backup, is completed (crossed_out)    *)
(* if and only if its section is the done section.                         *)
C3_CompletedIffDone ==
    \A t \in DOMAIN heap : heap[t].crossed_out <=> (heap[t].section = Vykonano)

C3_Witness ==
    /\ nEvents > 0
    /\ \E c \in KnownChats :
           /\ \E t \in Range(BackupOf(c)) : heap[t].crossed_out
           /\ \E t \in Range(TodosOf(c)) : ~heap[t].crossed_out
           /\ \E t \in Range(TodosOf(c)) : heap[t].section = Volynka

(* C4: display numbering is a bijection between 1..count and the chat's    *)
(* tasks: the lookups of 1..count return tasks of the list, every task is  *)
(* returned for exactly one number, and a number below 1 or above the      *)
(* count finds nothing.                                                    *)
C4_NumberingIsBijection ==
    \A c \in KnownChats :
        LET todos == user_todos[c]
            N == Len(todos)
            \* the tasks the numbers 1..N find
            found == {Lookup(Now, c, n) : n \in 1..N}
        IN \* N different tasks are in the list, and N numbers find them all
           /\ Cardinality(Range(todos)) = N
           /\ found = Range(todos)
           /\ \A n \in {-1, 0, N + 1, N + 2} : Lookup(Now, c, n) = None

C4_Witness ==
    /\ nEvents > 0
    /\ \E c \in KnownChats :
           /\ Len(user_todos[c]) >= 3
           /\ \E t \in Range(user_todos[c]) : heap[t].crossed_out
           /\ \E t \in Range(user_todos[c]) : heap[t].section = Garazh
           \* display order differs from insertion order
           /\ \E n \in 1..Len(user_todos[c]) : Lookup(Now, c, n) # user_todos[c][n]

(* C5: the list rendered for an event and the lookup agree on the state    *)
(* the event left: the task printed with number k is the task lookup       *)
(* returns for k, with its current text, and every task of the chat is     *)
(* printed exactly once.                                                   *)
C5_RenderAgreesWithLookup ==
    \A i \in 1..Len(out) :
        out[i].list # NoList =>
            LET items == out[i].list.items
                c == out[i].chat
            IN /\ \A k \in 1..Len(items) :
                      /\ Lookup(Now, c, items[k].num) = items[k].todo
                      /\ items[k].text = heap[items[k].todo].text
               /\ \A t \in Range(TodosOf(c)) :
                      Cardinality({k \in 1..Len(items) : items[k].todo = t}) = 1

C5_Witness ==
    \E i \in 1..Len(out) :
        /\ Len(out[i].list.items) >= 3
        /\ \E k \in 1..Len(out[i].list.items) : out[i].list.items[k].struck
        /\ \E k \in 1..Len(out[i].list.items) :
               out[i].list.items[k].header = Garazh
        /\ \E k \in 1..Len(out[i].list.items) :
               out[i].list.items[k].todo # TodosOf(out[i].chat)[k]

(* C6: a delete, toggle, move or merge whose display number resolves to no *)
(* task, or a merge of a task with itself, changes nothing: the chat's     *)
(* tasks, next id and backup are as before, and no task is created.       *)
C6_UnresolvedIsNoOp ==
    EventResolvesNothing => EventChangedNothing

(* C7: every inbound event yields exactly one outbound message for its     *)
(* chat; for a numeric command, also one that resolves to no task, that    *)
(* message is the rendered list.                                           *)
C7_OneOutboundPerEvent ==
    ev # NoEvent =>
        /\ Len(out) = 1
        /\ out[1].chat = ev.chat
        /\ IsNumericText(strip(ev.text)) => out[1].list # NoList

(* C8: no text aborts the interpreter, and every trimmed text that matches *)
(* none of the menu, delete, toggle, merge and move rules creates a task. *)
C8_UnmatchedTextIsAdded ==
    ev # NoEvent =>
        /\ ~aborted
        /\ LET t == strip(ev.text)
           IN (t \notin MenuLabels /\ ~IsNumericText(t)) =>
                  Len(View(ev.chat).todos) > Len(pre.todos)

\* the chat's tasks after a clear and then a restore are its tasks of now
ClearThenRestoreKeepsTodos(c) ==
    LET cleared == Run(Now, c, <<"[new]">>).m
        restored == Run(cleared, c, <<"[restore]">>).m
    IN ValuesOf(restored, c) = ValuesOf(Now, c)

(* C9 as stated: from every state, clear() immediately followed by         *)
(* restoreBackup() leaves the chat's tasks as they were before the clear,  *)
(* also when the list is empty and a backup exists.                        *)
C9_ClearRestoreAnyState ==
    \A c \in Chats : ClearThenRestoreKeepsTodos(c)

(* C9 amended: from every state in which the chat's list is not empty or   *)
(* its backup is empty, clear() immediately followed by restoreBackup()    *)
(* leaves the chat's tasks as they were before the clear: same ids, texts, *)
(* sections and completed flags in the same order.                         *)
C9_ClearRestoreNonEmpty ==
    \A c \in Chats :
        (ValuesOf(Now, c) # <<>> \/ BackupValuesOf(Now, c) = <<>>) =>
            ClearThenRestoreKeepsTodos(c)

C9_Witness ==
    \E c \in Chats :
        /\ ValuesOf(Now, c) # <<>>
        /\ BackupValuesOf(Now, c) # <<>>
        /\ BackupValuesOf(Now, c) # ValuesOf(Now, c)
        /\ ValuesOf(Run(Now, c, <<"[new]">>).m, c) = <<>>
        /\ BackupValuesOf(Run(Now, c, <<"[new]">>).m, c) = ValuesOf(Now, c)

(* C10: clear() on a list that is not empty makes the backup the previous  *)
(* list, empties the list, returns the number of tasks moved and leaves    *)
(* the next id; on an empty list it returns 0 and leaves the backup and    *)
(* the next id.                                                            *)
C10_ClearEffect ==
    (ev # NoEvent /\ strip(ev.text) = <<"[new]">>) =>
        LET v == View(ev.chat)
        IN /\ v.todos = <<>>
           /\ v.next_id = pre.next_id
           /\ Len(out) = 1
           /\ out[1].count = Len(pre.todos)
           /\ pre.todos # <<>> => v.backup = pre.todos
           /\ pre.todos = <<>> => (v.backup = pre.backup
                                   /\ v.has_backup = pre.has_backup)

\* the last step processed the text `label` of a chat
EventIs(label) == ev # NoEvent /\ strip(ev.text) = label

(* C11: restoreBackup() with a backup that is not empty makes the tasks    *)
(* exactly the backup sequence, returns its length and leaves the backup   *)
(* slot empty, so that a restore repeated at once returns 0 and changes    *)
(* nothing; with an empty or absent backup it returns 0 and changes        *)
(* nothing.                                                                *)
C11_RestoreEffect ==
    EventIs(<<"[restore]">>) =>
        LET c == ev.chat
            v == View(c)
            again == Run(Now, c, <<"[restore]">>)
        IN /\ Len(out) = 1
           /\ IF pre.backup # <<>>
                  THEN /\ v.todos = pre.backup
                       /\ out[1].count = Len(pre.backup)
                       /\ v.backup = <<>>
                       /\ again.out[1].count = 0
                       /\ UserView(again.m.heap, again.m.user_todos,
                                   again.m.next_ids, again.m.backups, c) = v
                  ELSE /\ out[1].count = 0
                       /\ EventChangedNothing

\* the ids of a sequence of task values
IdsOf(values) == {values[i].id : i \in 1..Len(values)}

\* the greatest number of a set of numbers that is not empty
MaxOf(S) == CHOOSE x \in S : \A y \in S : y <= x

\* the states a restore of the chat may start from: the current state, and
\* the states a clear and a continue lead to from it
RestoreStarts(c) ==
    {Now, Run(Now, c, <<"[new]">>).m, Run(Now, c, <<"[continue]">>).m}

(* C12: after a restoreBackup() that found a backup that is not empty, the *)
(* chat's next id is max(ids of the tasks that were in the list before the *)
(* restore, ids of the restored backup tasks) + 1.                         *)
C12_RestoreRecomputesNextId ==
    \A c \in Chats :
        \A m \in RestoreStarts(c) :
            BackupValuesOf(m, c) # <<>> =>
                Run(m, c, <<"[restore]">>).m.next_ids[c]
                    = MaxOf(IdsOf(ValuesOf(m, c)) \cup IdsOf(BackupValuesOf(m, c))) + 1

\* a task value is in Done / completed
IsDone(todo) == todo.crossed_out \/ todo.section = Vykonano

\* the completed tasks of the list the event found, and the others
PreDone == SelectSeq(pre.todos, IsDone)

PreNotDone == SelectSeq(pre.todos, LAMBDA todo : ~IsDone(todo))

C14_ContinueBacksUpRemoved ==
    (EventIs(<<"[continue]">>) /\ PreDone # <<>>) =>
        /\ View(ev.chat).has_backup
        /\ View(ev.chat).backup = PreDone

\* a manager that holds, for the chat, the task values `values`, each task
\* being the object whose reference is its place in the sequence
ManagerOf(values, chat) ==
    [heap |-> values,
     user_todos |-> Put(EmptyDict, chat, [i \in 1..Len(values) |-> i]),
     next_ids |-> Put(EmptyDict, chat, 1),
     backups |-> EmptyDict,
     storage_file |-> NoFile,
     io |-> "ok"]

\* the place, in the list the event found, of the task with display number
\* n (None if there is none)
PrePlace(n) == Lookup(ManagerOf(pre.todos, ev.chat), ev.chat, n)

\* the sequence s without its k-th element
Without(s, k) == SubSeq(s, 1, k - 1) \o SubSeq(s, k + 1, Len(s))

(* C15: a merge(n1, n2) of two distinct resolved tasks reduces the task    *)
(* count by exactly 1, removes task2, sets task1's text to text1 + " " +   *)
(* text2, keeps task1's id, section and completed flag, and leaves every   *)
(* other task, the order and the next id unchanged.                        *)
C15_MergeEffect ==
    (ev # NoEvent /\ IsMergeText(strip(ev.text))) =>
        LET parts == split(strip(ev.text), "+")
            p1 == PrePlace(int(parts[1]))
            p2 == PrePlace(int(parts[2]))
            merged == [i \in 1..Len(pre.todos) |->
                          IF i = p1
                              THEN [pre.todos[i] EXCEPT
                                       !.text = @ \o <<" ">> \o pre.todos[p2].text]
                              ELSE pre.todos[i]]
        IN (p1 # None /\ p2 # None /\ p1 # p2) =>
               /\ Len(View(ev.chat).todos) = Len(pre.todos) - 1
               /\ View(ev.chat).todos = Without(merged, p2)
               /\ View(ev.chat).next_id = pre.next_id

C15_Witness ==
    /\ ev # NoEvent
    /\ strip(ev.text) = <<"1", "+", "2">>
    /\ Len(pre.todos) >= 3
    /\ PrePlace(1) # None /\ PrePlace(2) # None
    \* the display numbers are not the places in the list
    /\ PrePlace(1) # 1
    /\ \E i \in 1..Len(View(ev.chat).todos) :
           View(ev.chat).todos[i].text
               = pre.todos[PrePlace(1)].text \o <<" ">> \o pre.todos[PrePlace(2)].text

\* toggle of the running program
Toggle(m, chat, n) ==
    IF variant = "v3" THEN toggle_todo(m, chat, n)
    ELSE toggle_todo_by_number(m, chat, n)

\* the display number of the task t of the chat
NumberOf(m, chat, t) ==
    CHOOSE k \in 1..Len(m.user_todos[chat]) : Lookup(m, chat, k) = t

\* the section a toggle leaves a task in
SectionFor(crossed) == IF crossed THEN Vykonano ELSE Zakupivlya

(* C16: a toggle flips the completed flag of its task and leaves it in     *)
(* Done if it is now completed and in the first section (Inbox) if it is   *)
(* now not completed, whatever its section was; a second toggle of the     *)
(* same task restores its completed flag, and restores the whole task if   *)
(* it was in the first section and not completed.                          *)
C16_ToggleTwice ==
    Quiet =>
        \A c \in KnownChats :
            \A n \in 1..Len(user_todos[c]) :
                LET t == Lookup(Now, c, n)
                    once == Toggle(Now, c, n).m
                    twice == Toggle(once, c, NumberOf(once, c, t)).m
                IN /\ once.heap[t].crossed_out = ~heap[t].crossed_out
                   /\ once.heap[t].section = SectionFor(once.heap[t].crossed_out)
                   /\ twice.heap[t].crossed_out = heap[t].crossed_out
                   /\ twice.heap[t].section = SectionFor(twice.heap[t].crossed_out)
                   /\ (heap[t].section = Zakupivlya /\ ~heap[t].crossed_out)
                          => twice.heap[t] = heap[t]

C16_Witness ==
    /\ nEvents > 0
    /\ \E c \in KnownChats :
           \E n1, n2 \in 1..Len(user_todos[c]) :
               /\ heap[Lookup(Now, c, n1)].crossed_out
               /\ ~Toggle(Now, c, n1).m.heap[Lookup(Now, c, n1)].crossed_out
               /\ heap[Lookup(Now, c, n2)].section \in {Garazh, Volynka}
               /\ Toggle(Now, c, n2).m.heap[Lookup(Now, c, n2)].section = Vykonano
               /\ NumberOf(Toggle(Now, c, n2).m, c, Lookup(Now, c, n2)) # n2

(* C17: every task in a chat's list or backup has a text that is not       *)
(* empty, whatever the texts received, a text that is only a section       *)
(* prefix marker ("!" or "!!") included.                                   *)
C17_TextsNotEmpty ==
    \A t \in DOMAIN heap : heap[t].text # <<>>

\* every chat of the model
AllChats == {BigChat, SmallChat, NewChat}

\* a chat's tasks, by value and in order, and its next id
TasksAndNextId(m, chat) ==
    [todos |-> ValuesOf(m, chat),
     next_id |-> IF chat \in DOMAIN m.next_ids THEN m.next_ids[chat] ELSE 1]

\* the manager of a process started on the file that m left; io is the
\* outcome of the write v3 does when it starts
Reload(m, io) ==
    IF variant = "v3" THEN _load_data(m.storage_file, io)
    ELSE load_data(m.storage_file)

(* C18: the state persisted after a mutating operation is the state after  *)
(* a restart: when an event changes some chat's tasks or next id and its   *)
(* writes succeed, a process started next holds, for every chat, the tasks *)
(* (ids, texts, sections, completed flags, order) and the next id that     *)
(* were in memory after the event.                                         *)
C18_RestartKeepsState ==
    Quiet =>
        \A c \in Chats, raw \in Texts :
            LET after == Run(Manager("ok"), c, raw).m
            IN (\E u \in AllChats :
                    TasksAndNextId(after, u) # TasksAndNextId(Now, u))
                   => \A io \in IoOutcomes, u \in AllChats :
                          TasksAndNextId(Reload(after, io), u)
                              = TasksAndNextId(after, u)

\* what a manager holds in memory
InMemory(m) ==
    [heap |-> [t \in Live(m) |-> m.heap[t]], user_todos |-> m.user_todos,
     next_ids |-> m.next_ids, backups |-> m.backups]

\* what save_data / _save_data would write now
Snapshot == IF variant = "v3" THEN v3_snapshot(Now) ELSE v1_snapshot(Now)

(* C19: a failing write never aborts or rolls back a mutation: for every   *)
(* chat and every text, the tasks, next ids and backups in memory after    *)
(* the event, the messages sent and the way the handler ends are the same  *)
(* whether the writes of the event succeed or fail.                        *)
C19_WriteFailureKeepsMutation ==
    Quiet =>
        \A c \in Chats, raw \in Texts :
            LET written == Run(Manager("ok"), c, raw)
                failed == Run(Manager("fail"), c, raw)
            IN /\ InMemory(failed.m) = InMemory(written.m)
               /\ failed.out = written.out
               /\ failed.aborted = written.aborted

C19_Witness ==
    /\ nEvents = MaxEvents
    /\ Quiet
    /\ ev # NoEvent
    \* the event changed the chat's tasks and the file does not have them
    /\ View(ev.chat).todos # pre.todos
    /\ Len(View(ev.chat).todos) > Len(pre.todos)
    /\ storage_file # Snapshot

\* the menu labels that only show something
ShowLabels ==
    {<<"[menu]">>, <<"[back]">>, <<"[list_v3]">>, <<"[list_v1]">>,
     <<"[help]">>, <<"[settings]">>}

(* C20: a text equal to a menu label (show list, clear, restore, continue, *)
(* settings, help, menu, back) is an administrative action and creates no  *)
(* task: every task the chat has after it, in its list or its backup, it   *)
(* had before; show list, settings, help, menu and back leave the tasks,   *)
(* the next id and the backup unchanged.                                   *)
C20_MenuLabelsCreateNoTask ==
    (ev # NoEvent /\ strip(ev.text) \in MenuLabels) =>
        /\ Range(View(ev.chat).todos) \cup Range(View(ev.chat).backup)
               \subseteq Range(pre.todos) \cup Range(pre.backup)
        /\ strip(ev.text) \in ShowLabels => EventChangedNothing

(* C21: events are processed one at a time: at most one call of            *)
(* handle_message is under way, so that an event is classified, applied,   *)
(* persisted and rendered before the next one is accepted; and while a     *)
(* call waits between the moment it found the chat and its operation, no   *)
(* other event changes the tasks, the next id or the backup of that chat.  *)
C21_OneEventAtATime ==
    /\ Cardinality(tasks) <= 1
    /\ \A t \in tasks :
           t.pc = "delete" => [View(t.chat) EXCEPT !.known = t.seen.known] = t.seen

C21_Witness ==
    /\ ev # NoEvent
    /\ View(ev.chat).todos # pre.todos
    /\ out # <<>>
    \* the next update, of the same chat, was taken after that event
    /\ \E t \in tasks : t.pc = "delete" /\ t.update_id = 2 /\ t.chat = ev.chat

\* the section and the text the prefix rule of the specification gives a
\* line: "!!" the third section, "!" the second, the first otherwise
SectionOf(line) ==
    IF startswith(line, <<"!", "!">>) THEN Volynka
    ELSE IF startswith(line, <<"!">>) THEN Garazh
    ELSE Zakupivlya

ContentOf(line) ==
    IF startswith(line, <<"!", "!">>) THEN Slice_from(line, 2)
    ELSE IF startswith(line, <<"!">>) THEN Slice_from(line, 1)
    ELSE line

\* add of the running program, for one line, as the handler calls it
Add(m, chat, line) ==
    IF variant = "v3" THEN add_todo(m, chat, line).m
    ELSE add_todo_from_text(get_user_data(m, chat), chat, line)

\* the lines added in the lookahead of C22
AddLines == {<<"a">>, <<"!", "a">>, <<"!", "!", "b">>, <<"1", "x">>}

NextIdOf(m, chat) == IF chat \in DOMAIN m.next_ids THEN m.next_ids[chat] ELSE 1

(* C22: add gives the new task the chat's current next id, increments the  *)
(* next id by exactly 1, appends the task at the end of the tasks, not     *)
(* completed and in the section chosen by the prefix, and leaves every     *)
(* task there was and the backup unchanged; the first task of a chat seen  *)
(* for the first time gets id 1.                                           *)
C22_AddEffect ==
    Quiet =>
        \A c \in AllChats, line \in AddLines :
            LET after == Add(Now, c, line)
                added == [id |-> NextIdOf(Now, c), text |-> ContentOf(line),
                          section |-> SectionOf(line), crossed_out |-> FALSE]
            IN /\ ValuesOf(after, c) = Append(ValuesOf(Now, c), added)
               /\ after.next_ids[c] = NextIdOf(Now, c) + 1
               \* the tasks there were are the same objects, unchanged
               /\ SubSeq(after.user_todos[c], 1, Len(TodosOf(c))) = TodosOf(c)
               /\ \A t \in DOMAIN heap : after.heap[t] = heap[t]
               /\ (c \in DOMAIN after.backups) = (c \in DOMAIN backups)
               /\ BackupValuesOf(after, c) = BackupValuesOf(Now, c)
               /\ c \notin KnownChats => ValuesOf(after, c)[1].id = 1

\* an add to a list whose next id is not its length plus one, with a backup
C22_Witness ==
    /\ Quiet
    /\ ev # NoEvent
    /\ BackupOf(ev.chat) # <<>>
    /\ TodosOf(ev.chat) # <<>>
    /\ next_ids[ev.chat] # Len(TodosOf(ev.chat)) + 1
    /\ Len(ValuesOf(Add(Now, ev.chat, <<"!", "!", "b">>), ev.chat))
           = Len(TodosOf(ev.chat)) + 1
    /\ NewChat \notin KnownChats

\* the trimmed text is new-task input by the rules of the specification:
\* not a menu label and, when it is a single line, not a numeric command
IsNewTaskInput(t) ==
    t \notin MenuLabels /\ (contains(t, "\n") \/ ~IsNumericText(t))

\* the trimmed lines of a text that are not empty, in order
InputLines(t) ==
    LET parts == split(t, "\n")
    IN SelectSeq([i \in 1..Len(parts) |-> strip(parts[i])],
                 LAMBDA line : line # <<>>)

\* the text and the section of each task of a sequence of task values
TextAndSection(values) ==
    [i \in 1..Len(values) |->
        [text |-> values[i].text, section |-> values[i].section]]

(* C23: new-task input is sectioned by prefix: a line starting with "!!"   *)
(* goes to the third section with the marker stripped, otherwise a line    *)
(* starting with "!" goes to the second section with the marker stripped,  *)
(* otherwise the line goes to the first section; a multi-line input        *)
(* creates one task per trimmed line that is not empty, in line order,     *)
(* each sectioned on its own, and none of its lines is taken as a delete,  *)
(* toggle, merge or move even if it looks numeric.  (Lines that are only a *)
(* marker are left to C17.)                                                *)
C23_NewTaskInputSectioned ==
    (ev # NoEvent /\ IsNewTaskInput(strip(ev.text))) =>
        LET lines == InputLines(strip(ev.text))
            now == View(ev.chat).todos
        IN (\A i \in 1..Len(lines) : ContentOf(lines[i]) # <<>>) =>
               /\ Len(now) = Len(pre.todos) + Len(lines)
               /\ SubSeq(now, 1, Len(pre.todos)) = pre.todos
               /\ TextAndSection(SubSeq(now, Len(pre.todos) + 1, Len(now)))
                      = [i \in 1..Len(lines) |->
                            [text |-> ContentOf(lines[i]),
                             section |-> SectionOf(lines[i])]]

\* the section a move suffix names
TargetOf(suffix) ==
    IF suffix = "g" THEN Garazh ELSE IF suffix = "v" THEN Volynka ELSE Zakupivlya

\* a task value after a toggle
Toggled(todo) ==
    [todo EXCEPT !.crossed_out = ~@, !.section = SectionFor(~todo.crossed_out)]

\* the numbers of the trimmed single-line text t, read by the first rule of
\* the specification that t matches, resolve to tasks of the list the event
\* found (two different tasks, for a merge)
Resolves(t) ==
    IF IsDeleteText(t) THEN PrePlace(int(Slice_from(t, 1))) # None
    ELSE IF IsToggleText(t) THEN PrePlace(int(t)) # None
    ELSE IF IsMergeText(t) THEN
        LET p1 == PrePlace(int(split(t, "+")[1]))
            p2 == PrePlace(int(split(t, "+")[2]))
        IN p1 # None /\ p2 # None /\ p1 # p2
    ELSE IF IsMoveText(t) THEN PrePlace(int(Slice_but_last(t))) # None
    ELSE FALSE

\* the list the event found, after the action that the first matching rule
\* of the specification gives t: delete, toggle, merge, move, in this order
ExpectedAfter(t) ==
    IF IsDeleteText(t) THEN
        Without(pre.todos, PrePlace(int(Slice_from(t, 1))))
    ELSE IF IsToggleText(t) THEN
        [pre.todos EXCEPT ![PrePlace(int(t))] = Toggled(@)]
    ELSE IF IsMergeText(t) THEN
        LET p1 == PrePlace(int(split(t, "+")[1]))
            p2 == PrePlace(int(split(t, "+")[2]))
        IN Without([pre.todos EXCEPT
                       ![p1].text = @ \o <<" ">> \o pre.todos[p2].text], p2)
    ELSE [pre.todos EXCEPT
             ![PrePlace(int(Slice_but_last(t)))].section = TargetOf(t[Len(t)]),
             ![PrePlace(int(Slice_but_last(t)))].crossed_out = FALSE]

Move(m, chat, n, target) ==
    IF variant = "v3" THEN move_todo_to_section(m, chat, n, target)
    ELSE v1_move_todo_to_section(m, chat, n, target)

Sections == {Zakupivlya, Garazh, Volynka, Vykonano}

\* the chat's tasks but t, the order of its list and its next id are in m
\* what they are now
OthersKept(m, c, t) ==
    /\ m.user_todos[c] = user_todos[c]
    /\ \A x \in Range(user_todos[c]) \ {t} : m.heap[x] = heap[x]
    /\ m.next_ids[c] = next_ids[c]

(* C25: moveToSection(n, target) on a task that is found sets its section  *)
(* to target and its completed flag to (target = Done), so that a task     *)
(* moved out of Done into an active section is not completed; the task's   *)
(* id and text, every other task, the next id and the backup are           *)
(* unchanged.                                                              *)
C25_MoveEffect ==
    Quiet =>
        \A c \in KnownChats :
            \A n \in 1..Len(user_todos[c]), target \in Sections :
                LET t == Lookup(Now, c, n)
                    r == Move(Now, c, n, target)
                IN /\ r.ret
                   /\ r.m.heap[t] = [heap[t] EXCEPT
                                        !.section = target,
                                        !.crossed_out = (target = Vykonano)]
                   /\ OthersKept(r.m, c, t)
                   /\ (c \in DOMAIN r.m.backups) = (c \in DOMAIN backups)
                   /\ BackupValuesOf(r.m, c) = BackupValuesOf(Now, c)

\* remove of the running program
Remove(m, chat, n) ==
    IF variant = "v3" THEN remove_todo(m, chat, n)
    ELSE remove_todo_by_number(m, chat, n)

(* C26: remove(n) on a number that is found removes exactly the task that  *)
(* lookupByDisplayNumber(n) returns, so that the count goes down by 1, and *)
(* leaves every other task unchanged and in the same relative order, and   *)
(* the next id and the backup unchanged.                                   *)
C26_RemoveEffect ==
    Quiet =>
        \A c \in KnownChats :
            \A n \in 1..Len(user_todos[c]) :
                LET t == Lookup(Now, c, n)
                    r == Remove(Now, c, n)
                IN /\ r.ret
                   /\ r.m.user_todos[c]
                          = SelectSeq(user_todos[c], LAMBDA x : x # t)
                   /\ Len(r.m.user_todos[c]) = Len(user_todos[c]) - 1
                   /\ \A x \in Range(r.m.user_todos[c]) : r.m.heap[x] = heap[x]
                   /\ r.m.next_ids[c] = next_ids[c]
                   /\ r.m.backups = backups
                   /\ BackupValuesOf(r.m, c) = BackupValuesOf(Now, c)

\* a delete done on a list whose first number is not its first task
C26_Witness ==
    /\ Quiet
    /\ EventIs(<<"-", "1">>)
    /\ PrePlace(1) # None
    /\ PrePlace(1) # 1
    /\ View(ev.chat).todos = Without(pre.todos, PrePlace(1))
    /\ View(ev.chat).todos # <<>>

\* a dict without the keys that are not the chat
OnlyKey(d, chat) == [k \in DOMAIN d \cap {chat} |-> d[k]]

\* the manager m with the lists, next ids and backups of the other chats
\* taken away
OnlyChat(m, chat) ==
    [m EXCEPT !.user_todos = OnlyKey(@, chat),
              !.next_ids = OnlyKey(@, chat),
              !.backups = OnlyKey(@, chat)]

\* what a manager holds for a chat: its lists, its next id and its tasks
HeldFor(m, chat) ==
    [todos |-> OnlyKey(m.user_todos, chat),
     next_id |-> OnlyKey(m.next_ids, chat),
     backup |-> OnlyKey(m.backups, chat),
     values |-> ValuesOf(m, chat),
     backup_values |-> BackupValuesOf(m, chat)]

(* C27: commands of one chat never change another chat's state: for every  *)
(* event of a chat A and every other chat B, the tasks, the next id and    *)
(* the backup of B are the same before and after; and what is sent to A    *)
(* depends only on A's state: it is the same when the other chats hold     *)
(* nothing.                                                                *)
C27_ChatsAreIsolated ==
    Quiet =>
        \A a \in Chats, raw \in Texts :
            LET r == Run(Now, a, raw)
                alone == Run(OnlyChat(Now, a), a, raw)
            IN /\ \A b \in AllChats \ {a} : HeldFor(r.m, b) = HeldFor(Now, b)
               /\ alone.out = r.out
               /\ alone.aborted = r.aborted
               /\ HeldFor(alone.m, a) = HeldFor(r.m, a)

\* an event changed the tasks of its chat while another chat has a backup
C27_Witness ==
    /\ Quiet
    /\ ev # NoEvent
    /\ View(ev.chat).todos # pre.todos
    /\ out # <<>>
    /\ \E b \in KnownChats \ {ev.chat} : BackupOf(b) # <<>>

(* C28: the backup is a snapshot that later commands on the tasks of the   *)
(* list cannot alter: in every reachable state no task object is both in   *)
(* a chat's list and in its backup, so that a toggle, a move or a merge    *)
(* done after a clear, a continue or a restore changes no text, section or *)
(* completed flag of a task held in the backup.                            *)
C28_BackupSharesNoTask ==
    /\ \A c \in KnownChats : Range(TodosOf(c)) \cap Range(BackupOf(c)) = {}
    /\ Quiet =>
           \A c \in KnownChats :
               \A n \in 1..Len(user_todos[c]) :
                   /\ BackupValuesOf(Toggle(Now, c, n).m, c) = BackupValuesOf(Now, c)
                   /\ BackupValuesOf(Move(Now, c, n, Garazh).m, c)
                          = BackupValuesOf(Now, c)
                   /\ BackupValuesOf(Run(Now, c, <<"1", "+", "2">>).m, c)
                          = BackupValuesOf(Now, c)

\* the task objects of a chat's list and of its backup, in the manager m
ListOf(m, chat) ==
    IF chat \in DOMAIN m.user_todos THEN Range(m.user_todos[chat]) ELSE {}

SlotOf(m, chat) ==
    IF chat \in DOMAIN m.backups THEN Range(m.backups[chat]) ELSE {}

(* C29: a restoreBackup() that succeeds discards the tasks that were in    *)
(* the list before it: every task that was in the list and not in the      *)
(* backup just before the restore is afterwards neither in the list nor in *)
(* the backup (so a continue followed by a restore leaves the tasks that   *)
(* were completed and loses the active ones).                              *)
C29_RestoreDiscardsLiveTasks ==
    Quiet =>
        \A c \in Chats :
            \A m \in RestoreStarts(c) :
                BackupValuesOf(m, c) # <<>> =>
                    LET after == Run(m, c, <<"[restore]">>).m
                        lost == ListOf(m, c) \ SlotOf(m, c)
                    IN lost \cap (ListOf(after, c) \cup SlotOf(after, c)) = {}

\* a continue that removed completed tasks and left active ones: a restore
\* now gives the list exactly the completed tasks
C29_Witness ==
    /\ Quiet
    /\ EventIs(<<"[continue]">>)
    /\ PreDone # <<>>
    /\ PreNotDone # <<>>
    /\ View(ev.chat).todos = PreNotDone
    /\ ValuesOf(Run(Now, ev.chat, <<"[restore]">>).m, ev.chat) = PreDone

\* what the manager m holds for a chat, by value
ViewIn(m, chat) ==
    [UserView(m.heap, m.user_todos, m.next_ids, m.backups, chat)
        EXCEPT !.known = TRUE]

\* no task of the chat's list is completed
NoneDone(chat) == SelectSeq(ValuesOf(Now, chat), IsDone) = <<>>

(* C30: continueList() on a list with no completed task returns 0 and      *)
(* changes nothing: the tasks, the next id and the backup there was are    *)
(* left as they were, and the backup is not replaced by an empty one.  The *)
(* value returned is that of v3's continue_list, whose handler then sends  *)
(* the message that there is nothing to remove.                            *)
C30_ContinueWithNoneDone ==
    Quiet =>
        \A c \in Chats :
            NoneDone(c) =>
                LET r == Run(Now, c, <<"[continue]">>)
                IN /\ ViewIn(r.m, c) = ViewIn(Now, c)
                   /\ TodosOf(c) = (IF c \in DOMAIN r.m.user_todos
                                        THEN r.m.user_todos[c] ELSE <<>>)
                   /\ \A t \in DOMAIN heap : r.m.heap[t] = heap[t]
                   /\ ~r.aborted
                   /\ Len(r.out) = 1
                   /\ variant = "v3" =>
                          /\ continue_list(Now, c).ret = 0
                          /\ r.out[1].tag = "none_done"
                          /\ r.out[1].count = 0

\* a list with tasks, none completed, and a backup that a continue leaves
C30_Witness ==
    /\ Quiet
    /\ ev # NoEvent
    /\ TodosOf(ev.chat) # <<>>
    /\ BackupOf(ev.chat) # <<>>
    /\ NoneDone(ev.chat)
    /\ BackupValuesOf(Run(Now, ev.chat, <<"[continue]">>).m, ev.chat)
           = View(ev.chat).backup
    /\ Run(Now, ev.chat, <<"[continue]">>).out[1].count = 0

====
